---- MODULE Spec2Model ----
(***************************************************************************)
(* Model of the GHL -> Google Sheets sync job (src/index.js): the          *)
(* per-location paginated fetch GHLClient.getContacts, the row transform,  *)
(* the location loop of syncGHLToSheets, SheetsClient.clearAndWriteData    *)
(* and the process exit code.                                              *)
(*                                                                         *)
(* Encoding of JavaScript values:                                          *)
(*   - text that the code inspects character by character (tags, custom    *)
(*     field keys/ids/names, names, e-mail) is a sequence of one-character *)
(*     strings; the empty sequence stands for '' and for an absent         *)
(*     (undefined/null) property, which the code treats alike (falsy);     *)
(*   - contact identifiers are opaque strings, NoId ("") is every falsy    *)
(*     identifier (undefined, null, '');                                   *)
(*   - a date property is 0 when absent (falsy), BadDate when it is a      *)
(*     truthy value Date cannot parse, else the UTC day YYYYMMDD;          *)
(*   - a Date object is NaNDate (Invalid Date) or the day YYYYMMDD.        *)
(***************************************************************************)
EXTENDS Integers, Sequences, FiniteSets, TLC

(***************************************************************************)
(* Bounds of the model                                                     *)
(***************************************************************************)
\* locations of CONFIG.locations that the model runs (the first ones)
NumLocations == 2
\* total number of GET /contacts/ requests issued in one run
MaxRequests == 3
\* total number of contacts the CRM serves in one run, over all pages
MaxServed == 3

\* the most elements a contact's customFields array holds
MaxFields == 2
\* the most rows extractUniqueTeamMembers is given
MaxRows == 2

(***************************************************************************)
(* Program constants                                                       *)
(***************************************************************************)
\* "if (page > 500)"
SafetyLimit == 500
\* "if (duplicatesInPage > 50)"
DuplicateLimit == 50
\* first and last row of the range A2:Z10000 that is cleared; row of A2
ClearFirstRow == 2
ClearLastRow == 10000
UpdateFirstRow == 2
\* startDate = today - CONFIG.daysBack, as a UTC day
StartDate == 20240301

NoId == ""
BadDate == -1
NaNDate == -1

\* CONFIG.saleTag
saleTag == <<"s", "a", "l", "e">>

\* CONFIG.locations
locations ==
  << [id |-> "xXV3CXt5DkgfGnTt8CG1", name |-> "Springfield", apiKeyEnv |-> "GHL_API_KEY_SPRINGFIELD"],
     [id |-> "uflpfHNpByAnaBLkQzu3", name |-> "Salem", apiKeyEnv |-> "GHL_API_KEY_SALEM"],
     [id |-> "g75BBgiSvlCRbvxYRMAb", name |-> "Keizer", apiKeyEnv |-> "GHL_API_KEY_KEIZER"],
     [id |-> "NNTZT21fPm3SxpLg8s04", name |-> "Eugene", apiKeyEnv |-> "GHL_API_KEY_EUGENE"],
     [id |-> "aqSDfuZLimMXuPz6Zx3p", name |-> "Clackamas", apiKeyEnv |-> "GHL_API_KEY_CLACKAMAS"],
     [id |-> "BQfUepBFzqVan4ruCQ6R", name |-> "Milwaukie", apiKeyEnv |-> "GHL_API_KEY_MILWAUKIE"] >>

LocIndex == 1..NumLocations

\* CONFIG.customFields
customFields ==
  [ saleTeamMember |-> <<"s","a","l","e","_","t","e","a","m","_","m","e","m","b","e","r">>,
    tourTeamMember |-> <<"t","o","u","r","_","t","e","a","m","_","m","e","m","b","e","r">>,
    sameDaySale    |-> <<"s","a","m","e","_","d","a","y","_","s","a","l","e">>,
    dayOneBooked   |-> <<"d","a","y","_","o","n","e","_","b","o","o","k","e","d">> ]

(***************************************************************************)
(* Text helpers                                                            *)
(***************************************************************************)
UpperLetters == <<"A","B","C","D","E","F","G","H","I","J","K","L","M",
                  "N","O","P","Q","R","S","T","U","V","W","X","Y","Z">>
LowerLetters == <<"a","b","c","d","e","f","g","h","i","j","k","l","m",
                  "n","o","p","q","r","s","t","u","v","w","x","y","z">>

\* String.prototype.toLowerCase on one character
LowerChar(c) ==
  IF \E i \in 1..26 : UpperLetters[i] = c
  THEN LowerLetters[CHOOSE i \in 1..26 : UpperLetters[i] = c]
  ELSE c

\* String.prototype.toLowerCase
toLowerCase(s) == [i \in 1..Len(s) |-> LowerChar(s[i])]

\* whether character c is matched by the regular expression \s
IsSpace(c) == c \in {" ", "\t", "\n"}

\* String.prototype.replace(/\s+/g, '_'): every maximal run of white space
\* becomes one underscore
RECURSIVE ReplaceSpaceRuns(_)
ReplaceSpaceRuns(s) ==
  IF s = <<>> THEN <<>>
  ELSE IF IsSpace(Head(s))
       THEN IF Len(s) > 1 /\ IsSpace(s[2])
            THEN ReplaceSpaceRuns(Tail(s))
            ELSE <<"_">> \o ReplaceSpaceRuns(Tail(s))
       ELSE <<Head(s)>> \o ReplaceSpaceRuns(Tail(s))

\* String.prototype.includes
Includes(s, sub) ==
  \E i \in 1..(Len(s) - Len(sub) + 1) : SubSeq(s, i, i + Len(sub) - 1) = sub

\* String.prototype.trim
RECURSIVE TrimStart(_)
TrimStart(s) ==
  IF s # <<>> /\ IsSpace(Head(s)) THEN TrimStart(Tail(s)) ELSE s

RECURSIVE TrimEnd(_)
TrimEnd(s) ==
  IF s # <<>> /\ IsSpace(s[Len(s)]) THEN TrimEnd(SubSeq(s, 1, Len(s) - 1)) ELSE s

Trim(s) == TrimEnd(TrimStart(s))

(***************************************************************************)
(* Contacts served by the CRM                                              *)
(***************************************************************************)
FieldKeys == { customFields.saleTeamMember, customFields.tourTeamMember,
               customFields.sameDaySale, customFields.dayOneBooked }

\* a null element of a contact's customFields array
NullField == [isNull |-> TRUE, key |-> <<>>, id |-> <<>>, name |-> <<>>, value |-> <<>>]

\* a contact with every property absent
BlankContact ==
  [ id |-> NoId, dateAdded |-> 0, createdAt |-> 0, tags |-> <<>>,
    firstName |-> <<>>, lastName |-> <<>>, email |-> <<>>,
    direct |-> [k \in FieldKeys |-> <<>>],
    hasCustomFields |-> FALSE, customFieldList |-> <<>> ]

\* created on the first day of the window, tag in another letter case,
\* sale team member given by a custom-field entry
ContactA ==
  [ BlankContact EXCEPT
      !.id = "c1", !.dateAdded = StartDate,
      !.tags = << <<"l","e","a","d">>, <<"S","a","l","e">> >>,
      !.firstName = <<"A","l">>, !.email = <<"a","@","x">>,
      !.hasCustomFields = TRUE,
      !.customFieldList =
         << [isNull |-> FALSE, key |-> customFields.saleTeamMember, id |-> <<>>,
             name |-> <<>>, value |-> <<"B","o">>] >> ]

\* tagged; dateAdded is the day before the window starts, createdAt is inside
ContactB ==
  [ BlankContact EXCEPT
      !.id = "c2", !.dateAdded = 20240229, !.createdAt = 20240310,
      !.tags = << <<"s","a","l","e">> >>,
      !.lastName = <<"B","e">> ]

\* inside the window, but "sales" is not the tag
ContactC ==
  [ BlankContact EXCEPT
      !.id = "c3", !.dateAdded = 20240402,
      !.tags = << <<"s","a","l","e","s">> >>,
      !.direct = [k \in FieldKeys |->
                    IF k = customFields.sameDaySale THEN <<"Y","e","s">> ELSE <<>>] ]

\* no identifier; tagged; no dateAdded, createdAt inside the window; its
\* customFields array holds a null element
ContactD ==
  [ BlankContact EXCEPT
      !.createdAt = 20240315,
      !.tags = << <<"S","A","L","E">> >>,
      !.firstName = <<"D","i">>,
      !.hasCustomFields = TRUE,
      !.customFieldList = << NullField >> ]

\* tagged; dateAdded is text that Date cannot parse, createdAt is inside
ContactE ==
  [ BlankContact EXCEPT
      !.id = "c4", !.dateAdded = BadDate, !.createdAt = 20240320,
      !.tags = << <<"s","a","l","e">> >>,
      !.email = <<"e","@","x">> ]

Catalog == {ContactA, ContactB, ContactC, ContactD, ContactE}

RECURSIVE SeqsUpTo(_, _)
SeqsUpTo(S, n) ==
  IF n = 0 THEN { <<>> }
  ELSE LET shorter == SeqsUpTo(S, n - 1)
       IN  shorter \cup { Append(q, x) : q \in { r \in shorter : Len(r) = n - 1 }, x \in S }

\* data.contacts of a response (an absent data.contacts is the empty page)
Pages == SeqsUpTo(Catalog, MaxServed)

\* what "await this.client.get('/contacts/', { params })" can yield
Responses ==
  { [kind |-> "page", contacts |-> p] : p \in Pages }
    \cup { [kind |-> "http429", contacts |-> <<>>], [kind |-> "error", contacts |-> <<>>] }

(***************************************************************************)
(* getContacts: the per-page computations                                  *)
(***************************************************************************)
\* new Date(v)
NewDate(v) == IF v = 0 \/ v = BadDate THEN NaNDate ELSE v

\* new Date(contact.dateAdded || contact.createdAt)
CreatedAt(contact) ==
  NewDate(IF contact.dateAdded # 0 THEN contact.dateAdded ELSE contact.createdAt)

\* a >= b on Date objects (false when either is Invalid Date)
DateGE(a, b) == a # NaNDate /\ b # NaNDate /\ a >= b

\* contact.tags && contact.tags.some(t => t.toLowerCase() === saleTag.toLowerCase())
HasTag(contact) ==
  \E i \in 1..Len(contact.tags) :
     toLowerCase(contact.tags[i]) = toLowerCase(saleTag)

\* PassesFilter without the tag test
PassesFilterDateOnly(contact) == DateGE(CreatedAt(contact), StartDate)

\* the predicate of data.contacts.filter(...)
PassesFilter(contact) ==
  DateGE(CreatedAt(contact), StartDate) /\ HasTag(contact)

\* Filtered when the matching contacts come out last first
FilteredReversed(page) ==
  LET f == SelectSeq(page, PassesFilter)
  IN  [i \in 1..Len(f) |-> f[Len(f) + 1 - i]]

\* data.contacts.filter(...)
Filtered(page) == SelectSeq(page, PassesFilter)

\* the identifiers of a page
PageIds(page) == { page[i].id : i \in 1..Len(page) }

\* duplicatesInPage after the forEach over the page
DuplicatesInPage(page, seen) ==
  Cardinality({ i \in 1..Len(page) :
                  page[i].id \in seen \cup { page[j].id : j \in 1..(i - 1) } })

\* LastId when the cursor is taken from the contacts that passed the filter
LastIdOfFiltered(page) ==
  LET f == Filtered(page) IN IF f = <<>> THEN NoId ELSE f[Len(f)].id

\* lastContact?.id
LastId(page) == IF page = <<>> THEN NoId ELSE page[Len(page)].id

(***************************************************************************)
(* transformContactToRow                                                   *)
(***************************************************************************)
\* FieldMatches by the key alone
FieldMatchesKeyOnly(f, fieldName) == f.key = fieldName

\* the predicate of contact.customFields.find(...) on a non-null element
FieldMatches(f, fieldName) ==
  \/ f.key = fieldName
  \/ Includes(f.id, fieldName)
  \/ (f.name # <<>> /\ ReplaceSpaceRuns(toLowerCase(f.name)) = fieldName)

\* index of the element contact.customFields.find(...) stops at: the first
\* element that is null (reading f.key of it raises a TypeError) or that
\* matches; 0 when there is none
FindStop(list, fieldName) ==
  LET hits == { i \in 1..Len(list) : list[i].isNull \/ FieldMatches(list[i], fieldName) }
  IN  IF hits = {} THEN 0 ELSE CHOOSE i \in hits : \A j \in hits : i <= j

\* whether getCustomField(fieldName) raises
FieldRaises(contact, fieldName) ==
  /\ contact.direct[fieldName] = <<>>
  /\ contact.hasCustomFields
  /\ FindStop(contact.customFieldList, fieldName) # 0
  /\ contact.customFieldList[FindStop(contact.customFieldList, fieldName)].isNull

\* getCustomField(fieldName), when it does not raise
getCustomField(contact, fieldName) ==
  IF contact.direct[fieldName] # <<>> THEN contact.direct[fieldName]
  ELSE IF contact.hasCustomFields
       THEN LET i == FindStop(contact.customFieldList, fieldName)
            IN  IF i = 0 THEN <<>> ELSE contact.customFieldList[i].value
       ELSE <<>>

monthNames == <<"January", "February", "March", "April", "May", "June",
                "July", "August", "September", "October", "November", "December">>

\* signupDate.toISOString().split('T')[0], as <<year, month, day>>
IsoDay(d) == << d \div 10000, (d \div 100) % 100, d % 100 >>

\* signupDate.getMonth(), 0-based
GetMonth(d) == ((d \div 100) % 100) - 1

\* signupDate.getFullYear()
GetFullYear(d) == d \div 10000

\* OrNo without the default
OrNoKeep(x) == x

\* x || 'No'
OrNo(x) == IF x = <<>> THEN <<"N","o">> ELSE x

\* whether transformContactToRow(contact, locationName) raises: a TypeError
\* in getCustomField, or the RangeError of toISOString on an Invalid Date
TransformRaises(contact) ==
  \/ CreatedAt(contact) = NaNDate
  \/ \E k \in FieldKeys : FieldRaises(contact, k)

\* the row transformContactToRow(contact, locationName) returns
transformContactToRow(contact, locationName) ==
  LET signupDate == CreatedAt(contact)
  IN  << contact.id,
         locationName,
         Trim(contact.firstName \o <<" ">> \o contact.lastName),
         contact.email,
         IsoDay(signupDate),
         getCustomField(contact, customFields.tourTeamMember),
         getCustomField(contact, customFields.saleTeamMember),
         OrNo(getCustomField(contact, customFields.sameDaySale)),
         OrNo(getCustomField(contact, customFields.dayOneBooked)),
         <<"Y","e","s">>,
         monthNames[GetMonth(signupDate) + 1],
         GetFullYear(signupDate) >>

\* whether contacts.map(c => transformContactToRow(c, location.name)) raises
MapRaises(cs) == \E i \in 1..Len(cs) : TransformRaises(cs[i])

\* contacts.map(c => transformContactToRow(c, location.name))
MapRows(cs, locationName) ==
  [i \in 1..Len(cs) |-> transformContactToRow(cs[i], locationName)]

(***************************************************************************)
(* extractUniqueTeamMembers                                                *)
(***************************************************************************)
\* String.prototype.charCodeAt(0) of a character the model uses
charCodeAt(c) ==
  IF \E i \in 1..26 : UpperLetters[i] = c
  THEN 64 + (CHOOSE i \in 1..26 : UpperLetters[i] = c)
  ELSE IF \E i \in 1..26 : LowerLetters[i] = c
  THEN 96 + (CHOOSE i \in 1..26 : LowerLetters[i] = c)
  ELSE IF c = "_" THEN 95
  ELSE IF c = "@" THEN 64
  ELSE 32

\* a < b for two strings: the comparison the default Array.prototype.sort
\* makes, by UTF-16 code units
RECURSIVE StringLess(_, _)
StringLess(a, b) ==
  IF b = <<>> THEN FALSE
  ELSE IF a = <<>> THEN TRUE
  ELSE IF charCodeAt(Head(a)) # charCodeAt(Head(b))
       THEN charCodeAt(Head(a)) < charCodeAt(Head(b))
       ELSE StringLess(Tail(a), Tail(b))

\* sort when the list is left as it is
sortSkipped(list) == list

\* Array.prototype.sort() without a compare function: ascending by
\* StringLess, equal elements in their former order
sort(list) ==
  LET rank(k) == Cardinality({ j \in 1..Len(list) :
                     \/ StringLess(list[j], list[k])
                     \/ (list[j] = list[k] /\ j < k) })
  IN  [n \in 1..Len(list) |-> list[CHOOSE k \in 1..Len(list) : rank(k) = n - 1]]

\* Array.from(set) after "rows.forEach(row => { if (row[i]) set.add(row[i]) })":
\* the truthy values of column i (0-based) in the order of their first row
MembersOf(rows, i) ==
  LET firsts == { k \in 1..Len(rows) :
                    /\ rows[k][i + 1] # <<>>
                    /\ \A j \in 1..(k - 1) : rows[j][i + 1] # rows[k][i + 1] }
      nth(n) == CHOOSE k \in firsts : Cardinality({ j \in firsts : j < k }) = n - 1
  IN  [n \in 1..Cardinality(firsts) |-> rows[nth(n)][i + 1]]

\* m => m, the predicate of the filter
Truthy(m) == m # <<>>

extractUniqueTeamMembers(rows) ==
  [ saleMembers |-> sort(SelectSeq(MembersOf(rows, 6), Truthy)),
    tourMembers |-> sort(SelectSeq(MembersOf(rows, 5), Truthy)) ]

(***************************************************************************)
(* State                                                                   *)
(***************************************************************************)
VARIABLES
  sheetIdSet,    \* process.env.GOOGLE_SHEET_ID is set (CONFIG.google.spreadsheetId)
  credentials,   \* process.env.GOOGLE_CREDENTIALS: "unset", "json" or "garbage"
  apiKey,        \* per location, process.env[location.apiKeyEnv] once read
  pc,            \* where the run stands
  exitCode,      \* the code given to process.exit, Running before
  locIdx,        \* index of the location the for loop of syncGHLToSheets is at
  allRows,       \* allRows of syncGHLToSheets
  contacts,      \* contacts of getContacts
  seenIds,       \* seenIds of getContacts
  startAfterId,  \* startAfterId of getContacts
  page,          \* page of getContacts
  response,      \* what the last "await this.client.get" yielded
  log,           \* the last message written to the console
  served,        \* the number of contacts the CRM served so far in this run
  requests,      \* the GET /contacts/ requests issued so far, in order
  accepted,      \* the pages of this fetch that reached contacts.push
  called,        \* the locations getContacts was called for
  fetched,       \* per location, the list getContacts returned
  sheetCalls,    \* the spreadsheets.values calls issued so far, in order
  sheet,         \* the destination tab: its header row and its body rows
  teamMembers    \* { saleMembers, tourMembers } of syncGHLToSheets

vars == << sheetIdSet, credentials, apiKey, pc, exitCode, locIdx, allRows,
           contacts, seenIds, startAfterId, page, response, log, served,
           requests, accepted, called, fetched, sheetCalls, sheet, teamMembers >>

envVars == << sheetIdSet, credentials >>
fetchVars == << contacts, seenIds, startAfterId, page >>

Running == -1

\* process.env[location.apiKeyEnv]: unset, or a key; NotRead before the loop
\* reaches the location
NoKey == ""
EnvValues == {NoKey, "key"}
NotRead == "(not read)"

NoResponse == [kind |-> "none", contacts |-> <<>>]

\* saleMembers and tourMembers before extractUniqueTeamMembers has run
NoMembers == [saleMembers |-> <<>>, tourMembers |-> <<>>]

\* the destination tab before the run: the header and the row a previous run
\* wrote for a location
HeaderRow == <<"Contact ID", "Location", "Name", "Email", "Signup Date",
               "Tour Team Member", "Sale Team Member", "Same Day Sale",
               "Day One Booked", "Sale", "Month", "Year">>
OldBody == MapRows(<<ContactA>>, locations[6].name)

Init ==
  /\ sheetIdSet \in BOOLEAN
  /\ credentials \in {"unset", "json", "garbage"}
  /\ apiKey = [l \in LocIndex |-> NotRead]
  /\ pc = "start"
  /\ exitCode = Running
  /\ locIdx = 1
  /\ allRows = <<>>
  /\ contacts = <<>>
  /\ seenIds = {}
  /\ startAfterId = NoId
  /\ page = 1
  /\ response = NoResponse
  /\ log = "none"
  /\ served = 0
  /\ requests = <<>>
  /\ accepted = <<>>
  /\ called = {}
  /\ fetched = [l \in LocIndex |-> <<>>]
  /\ sheetCalls = <<>>
  /\ sheet = [header |-> HeaderRow, body |-> OldBody]
  /\ teamMembers = NoMembers

(***************************************************************************)
(* syncGHLToSheets: start-up                                               *)
(***************************************************************************)
\* ExitFailure when the catch handler exits with code 0
ExitFailureWithZero ==
  /\ pc' = "exited"
  /\ exitCode' = 0
  /\ log' = "Sync failed"
  /\ teamMembers' = teamMembers

\* the rejection of syncGHLToSheets() reaches .catch: process.exit(1)
ExitFailure ==
  /\ pc' = "exited"
  /\ exitCode' = 1
  /\ log' = "Sync failed"
  /\ teamMembers' = teamMembers

\* clearAndWriteData returned: the team members are extracted from allRows
\* and logged, syncGHLToSheets() resolves and .then runs: process.exit(0)
ExitSuccess ==
  /\ teamMembers' = extractUniqueTeamMembers(allRows)
  /\ pc' = "exited"
  /\ exitCode' = 0
  /\ log' = "Sync completed"

\* ConfigMissing without the test of the spreadsheet identifier
ConfigMissingCredentialsOnly == credentials = "unset"

\* "if (!CONFIG.google.spreadsheetId) throw ...;
\*  if (!CONFIG.google.credentialsJson) throw ..."
ConfigMissing == ~sheetIdSet \/ credentials = "unset"

\* JSON.parse(credentialsJson) in the SheetsClient constructor raises
CredentialsUnparsable == credentials # "json"

\* the two configuration checks, the SheetsClient constructor and startDate
Start ==
  /\ pc = "start"
  /\ IF ConfigMissing \/ CredentialsUnparsable
     THEN ExitFailure /\ UNCHANGED locIdx
     ELSE /\ pc' = "location"
          /\ locIdx' = 1
          /\ exitCode' = exitCode
          /\ log' = "Fetching contacts from"
          /\ teamMembers' = teamMembers
  /\ allRows' = <<>>
  /\ UNCHANGED << envVars, served, apiKey, fetchVars, response, requests, accepted, called,
                  fetched, sheetCalls, sheet >>

(***************************************************************************)
(* syncGHLToSheets: the loop over CONFIG.locations                         *)
(***************************************************************************)
\* KeyMissing when the test is never true
KeyMissingNever(key) == FALSE

\* "if (!apiKey)"
KeyMissing(key) == key = NoKey

\* "const apiKey = process.env[location.apiKeyEnv]" finds no key:
\* "if (!apiKey) { ...; continue; }"
SkipLocation ==
  /\ pc = "location"
  /\ locIdx <= NumLocations
  /\ \E key \in EnvValues :
       /\ KeyMissing(key)
       /\ apiKey' = [apiKey EXCEPT ![locIdx] = key]
  /\ locIdx' = locIdx + 1
  /\ log' = "Skipping"
  /\ UNCHANGED << envVars, teamMembers, served, pc, exitCode, allRows, fetchVars, response, requests,
                  accepted, called, fetched, sheetCalls, sheet >>

\* the key is set: new GHLClient(apiKey) and the entry of getContacts, up to
\* the loop
BeginFetch ==
  /\ pc = "location"
  /\ locIdx <= NumLocations
  /\ \E key \in EnvValues :
       /\ ~KeyMissing(key)
       /\ apiKey' = [apiKey EXCEPT ![locIdx] = key]
  /\ contacts' = <<>>
  /\ seenIds' = {}
  /\ startAfterId' = NoId
  /\ page' = 1
  /\ accepted' = <<>>
  /\ called' = called \cup {locIdx}
  /\ response' = NoResponse
  /\ pc' = "request"
  /\ log' = "Fetching contacts for"
  /\ UNCHANGED << envVars, teamMembers, served, exitCode, locIdx, allRows, requests,
                  fetched, sheetCalls, sheet >>

\* the head of the loop body: params and this.client.get('/contacts/', ...)
SendRequest ==
  /\ pc = "request"
  /\ Len(requests) < MaxRequests
  /\ requests' = Append(requests, [loc |-> locIdx, startAfterId |-> startAfterId])
  /\ pc' = "await"
  /\ UNCHANGED << envVars, teamMembers, served, apiKey, exitCode, locIdx, allRows, fetchVars, response, log,
                  accepted, called, fetched, sheetCalls, sheet >>

(***************************************************************************)
(* getContacts: one turn of the while loop after the response arrived      *)
(***************************************************************************)
\* "if (!data.contacts || data.contacts.length === 0)"
NoMoreContacts(data) == Len(data) = 0

\* LoopDetected when the test is never true
LoopDetectedNever(data, seen) == FALSE

\* "if (seenIds.has(firstContactId))"
LoopDetected(data, seen) == data[1].id \in seen

\* TooManyDuplicates when the limit itself is already too many
TooManyDuplicatesAtLimit(data, seen) == DuplicatesInPage(data, seen) >= DuplicateLimit

\* "if (duplicatesInPage > 50)"
TooManyDuplicates(data, seen) == DuplicatesInPage(data, seen) > DuplicateLimit

\* CursorUnchanged without the comparison to the previous cursor
CursorAbsentOnly(newStartAfterId, oldStartAfterId) == newStartAfterId = NoId

\* "if (!newStartAfterId || newStartAfterId === startAfterId)"
CursorUnchanged(newStartAfterId, oldStartAfterId) ==
  newStartAfterId = NoId \/ newStartAfterId = oldStartAfterId

\* IsRateLimit when no error is taken for a rate limit
IsRateLimitNever(r) == FALSE

\* IsRateLimit when every error is taken for a rate limit
IsRateLimitAlways(r) == TRUE

\* "if (error.response?.status === 429)"
IsRateLimit(r) == r.kind = "http429"

\* PastSafetyLimit when the comparison is off by one
PastSafetyLimitLate(p) == p > SafetyLimit + 1

\* "if (page > 500)"
PastSafetyLimit(p) == p > SafetyLimit

\* break: leave the while loop
Break(message) ==
  /\ pc' = "return"
  /\ log' = message

\* the catch block of the loop body
OnRequestError(r) ==
  /\ IF IsRateLimit(r)
     THEN pc' = "request" /\ log' = "Rate limited, waiting 60 seconds"
     ELSE Break("Error fetching contacts")
  /\ UNCHANGED << fetchVars, accepted >>

\* the try block of the loop body from "const data = response.data" on
OnPage(data) ==
  IF NoMoreContacts(data)
  THEN Break("No more contacts") /\ UNCHANGED << fetchVars, accepted >>
  ELSE IF LoopDetected(data, seenIds)
  THEN Break("Detected loop") /\ UNCHANGED << fetchVars, accepted >>
  ELSE
    /\ seenIds' = seenIds \cup PageIds(data)
    /\ IF TooManyDuplicates(data, seenIds)
       THEN Break("Too many duplicates")
            /\ UNCHANGED << contacts, startAfterId, page, accepted >>
       ELSE
         /\ contacts' = contacts \o Filtered(data)
         /\ accepted' = Append(accepted, data)
         /\ IF CursorUnchanged(LastId(data), startAfterId)
            THEN Break("No more pages (cursor unchanged)")
                 /\ UNCHANGED << startAfterId, page >>
            ELSE
              /\ startAfterId' = LastId(data)
              /\ page' = page + 1
              /\ IF PastSafetyLimit(page + 1)
                 THEN Break("Safety limit reached")
                 ELSE pc' = "request" /\ log' = "Page"

\* "await this.client.get(...)" settles: the rest of the loop body runs
ReceiveResponse ==
  /\ pc = "await"
  /\ \E r \in Responses :
       /\ served + Len(r.contacts) <= MaxServed
       /\ served' = served + Len(r.contacts)
       /\ response' = r
       /\ IF r.kind = "page" THEN OnPage(r.contacts) ELSE OnRequestError(r)
  /\ UNCHANGED << envVars, teamMembers, apiKey, exitCode, locIdx, allRows, requests, called, fetched,
                  sheetCalls, sheet >>

(***************************************************************************)
(* syncGHLToSheets: the rest of one location                               *)
(***************************************************************************)
\* RowsAfterLocation when each row is pushed as soon as it is built: the rows
\* built before the raising contact stay in allRows
RowsAfterLocationPartial(rows, cs, locationName) ==
  LET bad == { i \in 1..Len(cs) : TransformRaises(cs[i]) }
      n == IF bad = {} THEN Len(cs) ELSE (CHOOSE i \in bad : \A j \in bad : i <= j) - 1
  IN  rows \o MapRows(SubSeq(cs, 1, n), locationName)

\* allRows after "rows = contacts.map(...); allRows.push(...rows)" inside
\* try/catch: the push is not reached when the map raises
RowsAfterLocation(rows, cs, locationName) ==
  IF MapRaises(cs) THEN rows ELSE rows \o MapRows(cs, locationName)

\* getContacts returns; the rows are built and appended, or the catch logs
ReturnContacts ==
  /\ pc = "return"
  /\ fetched' = [fetched EXCEPT ![locIdx] = contacts]
  /\ allRows' = RowsAfterLocation(allRows, contacts, locations[locIdx].name)
  /\ log' = IF MapRaises(contacts) THEN "Failed to process" ELSE "Transformed"
  /\ locIdx' = locIdx + 1
  /\ pc' = "location"
  /\ UNCHANGED << envVars, teamMembers, served, apiKey, exitCode, fetchVars, response, requests, accepted,
                  called, sheetCalls, sheet >>

(***************************************************************************)
(* SheetsClient.clearAndWriteData and the spreadsheet                      *)
(***************************************************************************)
\* spreadsheets.values.clear({ range: 'Raw Data!A2:Z10000' })
ClearCall ==
  [ op |-> "clear", sheetName |-> "Raw Data",
    firstRow |-> ClearFirstRow, lastRow |-> ClearLastRow, values |-> <<>>,
    status |-> "pending" ]

\* spreadsheets.values.update({ range: 'Raw Data!A2', resource: { values: data } })
UpdateCall(data) ==
  [ op |-> "update", sheetName |-> "Raw Data",
    firstRow |-> UpdateFirstRow, lastRow |-> UpdateFirstRow + Len(data) - 1,
    values |-> data, status |-> "pending" ]

\* the promise of the call issued last settles
Settled(calls, ok) ==
  [calls EXCEPT ![Len(calls)].status = IF ok THEN "ok" ELSE "failed"]

\* HasData when the early return is missing
HasDataAlways(data) == TRUE

\* "if (data.length === 0) return", negated
HasData(data) == Len(data) # 0

\* body without its trailing blank rows
RECURSIVE DropBlankTail(_)
DropBlankTail(body) ==
  IF body # <<>> /\ body[Len(body)] = <<>>
  THEN DropBlankTail(SubSeq(body, 1, Len(body) - 1))
  ELSE body

\* Applied when a call leaves the tab as it was
AppliedNothing(tab, call) == tab

\* the tab after a clear or an update took effect; body[i] is sheet row i + 1
Applied(tab, call) ==
  LET inRange(row) == call.firstRow <= row /\ row <= call.lastRow
      len == IF call.op = "update" /\ call.lastRow - 1 > Len(tab.body)
             THEN call.lastRow - 1 ELSE Len(tab.body)
      cell(i) == IF inRange(i + 1)
                 THEN IF call.op = "update" THEN call.values[i + 2 - call.firstRow] ELSE <<>>
                 ELSE IF i <= Len(tab.body) THEN tab.body[i] ELSE <<>>
  IN  [ header |-> IF inRange(1)
                   THEN IF call.op = "update" THEN call.values[2 - call.firstRow] ELSE <<>>
                   ELSE tab.header,
        body |-> DropBlankTail([i \in 1..len |-> cell(i)]) ]

\* the for loop is over: clearAndWriteData('Raw Data', allRows) is called and
\* awaits this.getSheets()
WriteSheets ==
  /\ pc = "location"
  /\ locIdx > NumLocations
  /\ pc' = "getSheets"
  /\ log' = "Writing to Google Sheets"
  /\ UNCHANGED << envVars, teamMembers, served, apiKey, exitCode, locIdx, allRows, fetchVars, response,
                  requests, accepted, called, fetched, sheetCalls, sheet >>

\* getSheets() settles: rejected (the run fails), or the clear is issued
GetSheetsReturns ==
  /\ pc = "getSheets"
  /\ \E ok \in BOOLEAN :
       IF ok
       THEN /\ sheetCalls' = Append(sheetCalls, ClearCall)
            /\ pc' = "clear"
            /\ UNCHANGED << exitCode, log, teamMembers >>
       ELSE ExitFailure /\ UNCHANGED sheetCalls
  /\ UNCHANGED << envVars, served, apiKey, locIdx, allRows, fetchVars, response, requests,
                  accepted, called, fetched, sheet >>

\* the clear settles: rejected (the run fails); else the body is cleared and
\* either there is nothing to write or the update is issued
ClearReturns ==
  /\ pc = "clear"
  /\ \E ok \in BOOLEAN :
       IF ~ok
       THEN /\ ExitFailure
            /\ sheetCalls' = Settled(sheetCalls, FALSE)
            /\ UNCHANGED sheet
       ELSE /\ sheet' = Applied(sheet, sheetCalls[Len(sheetCalls)])
            /\ IF HasData(allRows)
               THEN /\ sheetCalls' = Append(Settled(sheetCalls, TRUE), UpdateCall(allRows))
                    /\ pc' = "update"
                    /\ UNCHANGED << exitCode, log, teamMembers >>
               ELSE ExitSuccess /\ sheetCalls' = Settled(sheetCalls, TRUE)
  /\ UNCHANGED << envVars, served, apiKey, locIdx, allRows, fetchVars, response,
                  requests, accepted, called, fetched >>

\* the update settles: rejected (the run fails), or the rows are written and
\* the run completes
UpdateReturns ==
  /\ pc = "update"
  /\ \E ok \in BOOLEAN :
       /\ sheetCalls' = Settled(sheetCalls, ok)
       /\ IF ok
          THEN sheet' = Applied(sheet, sheetCalls[Len(sheetCalls)]) /\ ExitSuccess
          ELSE ExitFailure /\ UNCHANGED sheet
  /\ UNCHANGED << envVars, served, apiKey, locIdx, allRows, fetchVars, response,
                  requests, accepted, called, fetched >>

Next ==
  \/ Start
  \/ SkipLocation
  \/ BeginFetch
  \/ SendRequest
  \/ ReceiveResponse
  \/ ReturnContacts
  \/ WriteSheets
  \/ GetSheetsReturns
  \/ ClearReturns
  \/ UpdateReturns

Spec == Init /\ [][Next]_vars

(***************************************************************************)
(* transformContactToRow on its own: the run stands where getContacts has  *)
(* returned one contact for the first location, and the contact is drawn   *)
(* from contacts that differ in how one custom field is given              *)
(***************************************************************************)
Yes == <<"Y","e","s">>

\* an element of customFields that is not null
Field(key, id, name, value) ==
  [isNull |-> FALSE, key |-> key, id |-> id, name |-> name, value |-> value]

\* fieldName with its first letter in upper case and two blanks for every
\* underscore: "Same  day  sale" for "same_day_sale"
RECURSIVE Spaced(_)
Spaced(s) ==
  IF s = <<>> THEN <<>>
  ELSE (IF Head(s) = "_" THEN <<" ", " ">> ELSE <<Head(s)>>) \o Spaced(Tail(s))

DisplayName(fieldName) ==
  LET t == Spaced(fieldName)
      i == CHOOSE j \in 1..26 : LowerLetters[j] = t[1]
  IN  <<UpperLetters[i]>> \o Tail(t)

\* elements that give fieldName by their key, by their id or by their name,
\* each with a value of its own; one with the key and an empty value; one
\* with the key and the value "Yes"
KeyField(fieldName) == Field(fieldName, <<"f","1">>, <<>>, <<"K">>)
IdField(fieldName) == Field(<<"o">>, <<"c","f","_">> \o fieldName \o <<"_","2">>, <<>>, <<"I">>)
NameField(fieldName) == Field(<<"o">>, <<"f","3">>, DisplayName(fieldName), <<"N">>)
EmptyField(fieldName) == Field(fieldName, <<"f","4">>, <<>>, <<>>)
YesField(fieldName) == Field(fieldName, <<"f","5">>, <<>>, Yes)

\* an element for another field
OtherField == Field(<<"o","t","h","e","r">>, <<"f","6">>, <<"O","t","h","e","r">>, <<"O">>)

FieldsFor(fieldName) ==
  { KeyField(fieldName), IdField(fieldName), NameField(fieldName), EmptyField(fieldName),
    YesField(fieldName), OtherField, NullField }

\* contact[fieldName]: absent, "Yes" or another text
DirectValues == { <<>>, Yes, <<"D">> }

\* the contacts getContacts may have returned: wanted, and one custom field
\* given directly, by the elements of customFields, by both or not at all
InputsFor(k) ==
  { [ContactA EXCEPT !.direct[k] = dv, !.hasCustomFields = TRUE, !.customFieldList = list] :
      dv \in DirectValues, list \in SeqsUpTo(FieldsFor(k), MaxFields) }
    \cup { [ContactA EXCEPT !.direct[k] = dv, !.hasCustomFields = FALSE, !.customFieldList = <<>>] :
             dv \in DirectValues }

TransformInputs == UNION { InputsFor(k) : k \in FieldKeys }

\* the run after getContacts returned cs for the first location: two
\* requests, answered by the page cs and by an empty page
Returned(cs) ==
  /\ sheetIdSet = TRUE
  /\ credentials = "json"
  /\ apiKey = [l \in LocIndex |-> IF l = 1 THEN "key" ELSE NotRead]
  /\ pc = "return"
  /\ exitCode = Running
  /\ locIdx = 1
  /\ allRows = <<>>
  /\ contacts = cs
  /\ seenIds = PageIds(cs)
  /\ startAfterId = LastId(cs)
  /\ accepted = <<cs>>
  /\ requests = << [loc |-> 1, startAfterId |-> NoId], [loc |-> 1, startAfterId |-> LastId(cs)] >>
  /\ page = 2
  /\ response = [kind |-> "page", contacts |-> <<>>]
  /\ log = "No more contacts"
  /\ served = Len(cs)
  /\ called = {1}
  /\ fetched = [l \in LocIndex |-> <<>>]
  /\ sheetCalls = <<>>
  /\ sheet = [header |-> HeaderRow, body |-> OldBody]
  /\ teamMembers = NoMembers

InitTransform == \E c \in TransformInputs : Returned(<<c>>)

NextTransform == ReturnContacts

SpecTransform == InitTransform /\ [][NextTransform]_vars

(***************************************************************************)
(* extractUniqueTeamMembers on the rows of a run: getContacts has returned *)
(* contacts that name their team members, no other location has a key,    *)
(* and the run goes on to the write and to the extraction                  *)
(***************************************************************************)
\* the names a team-member field may hold
MemberNames == { <<"A","m","y">>, <<"B","o","b">>, <<"B","o">>, <<"a","m","y">> }

\* wanted contacts with a tour and a sale team member, each possibly absent
MemberContacts ==
  { [ContactA EXCEPT !.direct[customFields.saleTeamMember] = s,
                     !.direct[customFields.tourTeamMember] = t,
                     !.hasCustomFields = FALSE, !.customFieldList = <<>>] :
      s \in MemberNames \cup {<<>>}, t \in MemberNames \cup {<<>>} }

InitMembers ==
  \E cs \in SeqsUpTo(MemberContacts, MaxRows) \ {<<>>} : Returned(cs)

NextMembers ==
  \/ ReturnContacts
  \/ SkipLocation
  \/ WriteSheets
  \/ GetSheetsReturns
  \/ ClearReturns
  \/ UpdateReturns

SpecMembers == InitMembers /\ [][NextMembers]_vars

(***************************************************************************)
(* A CRM that never runs out of contacts: every page brings a contact the  *)
(* fetch has not seen, so that only the page count can end the loop        *)
(***************************************************************************)
\* the page the CRM serves to the request for page p: the first page holds a
\* wanted contact, every later one a new contact that has an id and no tags
FreshPage(p) ==
  IF p = 1 THEN <<ContactA>>
  ELSE << [id |-> ToString(p), dateAdded |-> 0, createdAt |-> 0, tags |-> <<>>] >>

\* what the CRM may answer to the request for page p: a new page, the first
\* page again, an empty page, a rate limit or another error
LongResponses(p) ==
  { [kind |-> "page", contacts |-> FreshPage(p)],
    [kind |-> "page", contacts |-> FreshPage(1)],
    [kind |-> "page", contacts |-> <<>>],
    [kind |-> "http429", contacts |-> <<>>],
    [kind |-> "error", contacts |-> <<>>] }

\* the head of the loop body; requests keeps the request issued last only
SendRequestLast ==
  /\ pc = "request"
  /\ requests' = << [loc |-> locIdx, startAfterId |-> startAfterId] >>
  /\ pc' = "await"
  /\ UNCHANGED << envVars, teamMembers, served, apiKey, exitCode, locIdx, allRows, fetchVars, response, log,
                  accepted, called, fetched, sheetCalls, sheet >>

\* "await this.client.get(...)" settles: the rest of the loop body runs
ReceiveLong ==
  /\ pc = "await"
  /\ \E r \in LongResponses(page) :
       /\ response' = r
       /\ IF r.kind = "page" THEN OnPage(r.contacts) ELSE OnRequestError(r)
  /\ UNCHANGED << envVars, teamMembers, served, apiKey, exitCode, locIdx, allRows, requests, called,
                  fetched, sheetCalls, sheet >>

NextLong ==
  \/ Start
  \/ SkipLocation
  \/ BeginFetch
  \/ SendRequestLast
  \/ ReceiveLong
  \/ ReturnContacts
  \/ WriteSheets
  \/ GetSheetsReturns
  \/ ClearReturns
  \/ UpdateReturns

SpecLong == Init /\ [][NextLong]_vars

\* the event loop keeps running the program and every call to a service
\* settles
SpecLongFair == SpecLong /\ WF_vars(NextLong)

(***************************************************************************)
(* A CRM that repeats contacts: pages made of one contact followed by many *)
(* copies of another, around the limit of duplicatesInPage                 *)
(***************************************************************************)
\* the contacts the repeating pages are made of: a wanted and an unwanted one
RepeatedContacts == {ContactA, ContactC}

\* how many copies follow the first contact of a page
CopyCounts == {0, DuplicateLimit, DuplicateLimit + 1}

\* the page <<c, d, d, ..., d>> with n copies of d
RepeatPage(c, d, n) == <<c>> \o [i \in 1..n |-> d]

RepeatResponses ==
  { [kind |-> "page", contacts |-> RepeatPage(c, d, n)] :
      c \in RepeatedContacts, d \in RepeatedContacts, n \in CopyCounts }
    \cup { [kind |-> "page", contacts |-> <<>>],
           [kind |-> "http429", contacts |-> <<>>], [kind |-> "error", contacts |-> <<>>] }

\* "await this.client.get(...)" settles: the rest of the loop body runs
ReceiveRepeat ==
  /\ pc = "await"
  /\ \E r \in RepeatResponses :
       /\ response' = r
       /\ IF r.kind = "page" THEN OnPage(r.contacts) ELSE OnRequestError(r)
  /\ UNCHANGED << envVars, teamMembers, served, apiKey, exitCode, locIdx, allRows, requests, called,
                  fetched, sheetCalls, sheet >>

NextRepeat ==
  \/ Start
  \/ SkipLocation
  \/ BeginFetch
  \/ SendRequest
  \/ ReceiveRepeat
  \/ ReturnContacts
  \/ WriteSheets
  \/ GetSheetsReturns
  \/ ClearReturns
  \/ UpdateReturns

SpecRepeat == Init /\ [][NextRepeat]_vars

(***************************************************************************)
(* The variant with one API key for all locations: its getContacts and its *)
(* syncGHLToSheets; the sheet writer, the transform and the entry point    *)
(* are those above                                                         *)
(***************************************************************************)
\* the contacts the CRM serves to the variant
SharedCatalog == {ContactA, ContactB, ContactD}

\* data.meta?.nextPageUrl || data.meta?.startAfterId || null
NextCursors == {NoId, "n1"}

\* what "await this.client.get('/contacts/', { params })" can yield
SharedResponses ==
  { [kind |-> "page", contacts |-> p, next |-> n] :
      p \in SeqsUpTo(SharedCatalog, MaxServed), n \in NextCursors }
    \cup { [kind |-> "http429", contacts |-> <<>>, next |-> NoId],
           [kind |-> "error", contacts |-> <<>>, next |-> NoId] }

\* CONFIG.ghl.apiKey is read when the module is loaded
InitShared ==
  /\ sheetIdSet \in BOOLEAN
  /\ credentials \in {"unset", "json", "garbage"}
  /\ \E key \in EnvValues : apiKey = [l \in LocIndex |-> key]
  /\ pc = "start"
  /\ exitCode = Running
  /\ locIdx = 1
  /\ allRows = <<>>
  /\ contacts = <<>>
  /\ seenIds = {}
  /\ startAfterId = NoId
  /\ page = 1
  /\ response = NoResponse
  /\ log = "none"
  /\ served = 0
  /\ requests = <<>>
  /\ accepted = <<>>
  /\ called = {}
  /\ fetched = [l \in LocIndex |-> <<>>]
  /\ sheetCalls = <<>>
  /\ sheet = [header |-> HeaderRow, body |-> OldBody]
  /\ teamMembers = NoMembers

\* the three configuration checks, the two constructors and startDate
StartShared ==
  /\ pc = "start"
  /\ IF KeyMissing(apiKey[1]) \/ ConfigMissing \/ CredentialsUnparsable
     THEN ExitFailure /\ UNCHANGED locIdx
     ELSE /\ pc' = "location"
          /\ locIdx' = 1
          /\ exitCode' = exitCode
          /\ log' = "Fetching contacts from"
          /\ teamMembers' = teamMembers
  /\ allRows' = <<>>
  /\ UNCHANGED << envVars, served, apiKey, fetchVars, response, requests, accepted, called,
                  fetched, sheetCalls, sheet >>

\* the next entry of CONFIG.locations: getContacts is entered, up to "do"
BeginFetchShared ==
  /\ pc = "location"
  /\ locIdx <= NumLocations
  /\ contacts' = <<>>
  /\ startAfterId' = NoId
  /\ page' = 1
  /\ accepted' = <<>>
  /\ called' = called \cup {locIdx}
  /\ response' = NoResponse
  /\ pc' = "request"
  /\ log' = "Fetching contacts for"
  /\ UNCHANGED << envVars, teamMembers, served, apiKey, exitCode, locIdx, allRows, seenIds,
                  requests, fetched, sheetCalls, sheet >>

\* the head of the try block: params (startAfterId when nextPageUrl is set)
\* and this.client.get('/contacts/', ...)
SendRequestShared ==
  /\ pc = "request"
  /\ Len(requests) < MaxRequests
  /\ requests' = Append(requests, [loc |-> locIdx, startAfterId |-> startAfterId])
  /\ pc' = "await"
  /\ UNCHANGED << envVars, teamMembers, served, apiKey, exitCode, locIdx, allRows, fetchVars,
                  response, log, accepted, called, fetched, sheetCalls, sheet >>

\* "while (nextPageUrl)": the loop goes on, or getContacts returns
WhileNextPageUrl(nextPageUrl) ==
  pc' = IF nextPageUrl # NoId THEN "request" ELSE "return"

\* the try block from "const data = response.data" on, and the loop test
OnPageShared(r) ==
  /\ contacts' = contacts \o Filtered(r.contacts)
  /\ accepted' = IF r.contacts # <<>> THEN Append(accepted, r.contacts) ELSE accepted
  /\ startAfterId' = r.next
  /\ page' = page + 1
  /\ log' = "Page"
  /\ WhileNextPageUrl(r.next)
  /\ UNCHANGED << locIdx >>

\* the catch block: on 429 the sleep and then the loop test; on any other
\* error "throw error", which the catch of syncGHLToSheets logs before the
\* for loop goes to the next location
OnRequestErrorShared(r) ==
  /\ IF IsRateLimit(r)
     THEN /\ WhileNextPageUrl(startAfterId)
          /\ log' = "Rate limited, waiting 60 seconds"
          /\ UNCHANGED locIdx
     ELSE /\ pc' = "location"
          /\ locIdx' = locIdx + 1
          /\ log' = "Failed to process"
  /\ UNCHANGED << contacts, accepted, startAfterId, page >>

\* "await this.client.get(...)" settles: the rest of the loop body runs
ReceiveShared ==
  /\ pc = "await"
  /\ \E r \in SharedResponses :
       /\ served + Len(r.contacts) <= MaxServed
       /\ served' = served + Len(r.contacts)
       /\ response' = r
       /\ IF r.kind = "page" THEN OnPageShared(r) ELSE OnRequestErrorShared(r)
  /\ UNCHANGED << envVars, teamMembers, apiKey, exitCode, allRows, seenIds, requests, called,
                  fetched, sheetCalls, sheet >>

NextShared ==
  \/ StartShared
  \/ BeginFetchShared
  \/ SendRequestShared
  \/ ReceiveShared
  \/ ReturnContacts
  \/ WriteSheets
  \/ GetSheetsReturns
  \/ ClearReturns
  \/ UpdateReturns

SpecShared == InitShared /\ [][NextShared]_vars

(***************************************************************************)
(* Vocabulary of the properties                                            *)
(***************************************************************************)
\* every spelling of the tag 'sale' that differs from it only in letter case
SaleSpellings ==
  { <<a, b, c, d>> : a \in {"s", "S"}, b \in {"a", "A"}, c \in {"l", "L"}, d \in {"e", "E"} }

\* the creation timestamp of a contact: dateAdded, else createdAt
Stamp(c) == IF c.dateAdded # 0 THEN c.dateAdded ELSE c.createdAt

\* the contact was created on or after startDate and carries the sale tag
Wanted(c) ==
  /\ Stamp(c) > 0
  /\ Stamp(c) >= StartDate
  /\ \E i \in 1..Len(c.tags) : c.tags[i] \in SaleSpellings

\* the wanted contacts of a sequence of pages, page after page, in page order
RECURSIVE WantedOf(_)
WantedOf(pages) ==
  IF pages = <<>> THEN <<>>
  ELSE SelectSeq(Head(pages), Wanted) \o WantedOf(Tail(pages))

\* the last request issued
LastRequest == requests[Len(requests)]

\* this step receives a page (data) / an error while a request is in flight
ReceivesPage == pc = "await" /\ response'.kind = "page"
ReceivesError(kind) == pc = "await" /\ response'.kind = kind

\* this step leaves the loop of getContacts without issuing a request
StopsFetch == pc' = "return" /\ requests' = requests

\* once getContacts has left its loop, no request is issued for the location:
\* the run moves on to the next location, and a request is always for the
\* location the run is at
NoRequestAfterStop ==
  /\ pc = "return" => requests' = requests /\ locIdx' = locIdx + 1
  /\ requests' # requests =>
       /\ pc = "request"
       /\ requests' = Append(requests, [loc |-> locIdx, startAfterId |-> startAfterId])
  /\ locIdx' >= locIdx

(***************************************************************************)
(* C1: every contact in the list getContacts builds and returns was        *)
(* created on or after startDate (dateAdded, else createdAt) and carries   *)
(* a tag equal to 'sale' ignoring case.                                    *)
(***************************************************************************)
C1_OnlyWantedContacts ==
  /\ \A i \in 1..Len(contacts) : Wanted(contacts[i])
  /\ \A l \in LocIndex : \A i \in 1..Len(fetched[l]) : Wanted(fetched[l][i])

\* a fetch returned contacts after accepting a page it had to drop one from
C1_Witness ==
  /\ pc = "location"
  /\ locIdx > 1
  /\ fetched[locIdx - 1] # <<>>
  /\ \E k \in 1..Len(accepted) : \E i \in 1..Len(accepted[k]) :
       ~Wanted(accepted[k][i])

(***************************************************************************)
(* C2: when the first identifier of a received page is already in the      *)
(* seen set, the fetch stops, nothing of that page is added and no further *)
(* request is issued for the location; with two pages whose first          *)
(* identifiers agree, the result is the wanted contacts of page 1.         *)
(***************************************************************************)
C2_LoopDetectionStops ==
  /\ [][ /\ (ReceivesPage /\ response'.contacts # <<>>
               /\ response'.contacts[1].id \in seenIds)
            => (StopsFetch /\ contacts' = contacts /\ accepted' = accepted)
         /\ NoRequestAfterStop ]_vars
  /\ [](  ( /\ pc = "return"
            /\ log = "Detected loop"
            /\ Len(accepted) = 1
            /\ response.contacts[1].id = accepted[1][1].id )
          => contacts = SelectSeq(accepted[1], Wanted) )

\* page 2 starts with the identifier page 1 started with, and page 1 had a
\* wanted contact
C2_Witness ==
  /\ pc = "return"
  /\ log = "Detected loop"
  /\ Len(accepted) = 1
  /\ response.contacts[1].id = accepted[1][1].id
  /\ contacts # <<>>

(***************************************************************************)
(* C3: when the identifier of the last raw contact of an accepted page is  *)
(* absent or equals the cursor sent to obtain the page, the fetch stops    *)
(* without a further request and the page's wanted contacts are in the     *)
(* result.                                                                 *)
(***************************************************************************)
C3_CursorUnchangedStops ==
  [][ /\ ( /\ ReceivesPage
           /\ accepted' # accepted
           /\ \/ LastId(response'.contacts) = NoId
              \/ LastId(response'.contacts) = LastRequest.startAfterId )
         => /\ StopsFetch
            /\ contacts' = contacts \o SelectSeq(response'.contacts, Wanted)
      /\ NoRequestAfterStop ]_vars

\* an accepted page ended with the identifier that was sent as the cursor,
\* and a wanted contact of it is in the result
C3_Witness ==
  /\ pc = "return"
  /\ response.kind = "page"
  /\ Len(accepted) = 2
  /\ accepted[2] = response.contacts
  /\ LastId(response.contacts) # NoId
  /\ LastId(response.contacts) = LastRequest.startAfterId
  /\ SelectSeq(response.contacts, Wanted) # <<>>
  /\ Len(contacts) = Len(WantedOf(accepted))

(***************************************************************************)
(* C4: an HTTP 429 does not stop the fetch: the result list, the seen set, *)
(* the page counter and the cursor are unchanged, the loop goes on, and    *)
(* the request that follows carries the cursor of the failed one.          *)
(***************************************************************************)
C4_RateLimitRetriesSamePage ==
  [][ /\ ReceivesError("http429")
         => /\ pc' = "request"
            /\ UNCHANGED << contacts, seenIds, page, startAfterId, accepted >>
      /\ (requests' # requests /\ response.kind = "http429")
         => /\ Len(requests') = Len(requests) + 1
            /\ requests'[Len(requests')] = LastRequest ]_vars

\* after an accepted page a request was answered 429 and has been re-issued
C4_Witness ==
  /\ pc = "await"
  /\ response.kind = "http429"
  /\ contacts # <<>>
  /\ Len(requests) = 3
  /\ requests[3] = requests[2]
  /\ requests[3].startAfterId # NoId

(***************************************************************************)
(* C5: an error other than HTTP 429 stops the fetch with no further        *)
(* request; getContacts returns, and what it returns is the wanted         *)
(* contacts of the pages accepted before the error.                        *)
(***************************************************************************)
C5_OtherErrorKeepsPartial ==
  /\ [][ /\ ReceivesError("error")
            => (StopsFetch /\ contacts' = contacts /\ accepted' = accepted)
         /\ pc = "return"
            => (fetched' = [fetched EXCEPT ![locIdx] = contacts] /\ pc' = "location")
         /\ NoRequestAfterStop ]_vars
  /\ [](pc = "return" => contacts = WantedOf(accepted))

\* the fetch returned what it had collected before a request failed
C5_Witness ==
  /\ pc = "location"
  /\ response.kind = "error"
  /\ locIdx > 1
  /\ fetched[locIdx - 1] # <<>>
  /\ fetched[locIdx - 1] = WantedOf(accepted)

\* the rows location l contributes: none when it is skipped or its
\* processing raised, else one row per contact its fetch returned
RowsOf(l) ==
  IF apiKey[l] = NoKey \/ MapRaises(fetched[l])
  THEN <<>>
  ELSE MapRows(fetched[l], locations[l].name)

RECURSIVE RowsUpTo(_)
RowsUpTo(n) == IF n = 0 THEN <<>> ELSE RowsUpTo(n - 1) \o RowsOf(n)

AllCallsOk == \A i \in 1..Len(sheetCalls) : sheetCalls[i].status = "ok"

(***************************************************************************)
(* C6: a location whose API key is unset gets no CRM request and           *)
(* contributes no row; every other location is processed and all its rows  *)
(* are in the row set handed to the Sheet Writer; the run exits with code  *)
(* 0 when the sheet write succeeds.                                        *)
(***************************************************************************)
C6_MissingKeySkipsLocation ==
  /\ \A l \in LocIndex :
       apiKey[l] = NoKey =>
         /\ l \notin called
         /\ fetched[l] = <<>>
         /\ \A i \in 1..Len(requests) : requests[i].loc # l
  /\ locIdx > NumLocations =>
       /\ \A l \in LocIndex : apiKey[l] \in EnvValues
       /\ \A l \in LocIndex : apiKey[l] # NoKey => l \in called
       /\ allRows = RowsUpTo(NumLocations)
       /\ \A i \in 1..Len(sheetCalls) :
            sheetCalls[i].op = "update" => sheetCalls[i].values = allRows
  /\ (pc = "exited" /\ sheetCalls # <<>> /\ AllCallsOk) => exitCode = 0

\* Salem has no key, Springfield's rows were written, the run exited with 0
C6_Witness ==
  /\ pc = "exited"
  /\ exitCode = 0
  /\ apiKey[2] = NoKey
  /\ locations[2].name = "Salem"
  /\ allRows # <<>>
  /\ allRows = MapRows(fetched[1], "Springfield")
  /\ sheet.body = allRows

(***************************************************************************)
(* C7: when processing a location raises, the location contributes no row  *)
(* (never some of its rows), the rows of earlier locations stay as they    *)
(* are, and the later locations are still processed, in order.             *)
(***************************************************************************)
C7_FailureIsolatedPerLocation ==
  /\ [][ /\ (pc = "return" /\ \E i \in 1..Len(contacts) : TransformRaises(contacts[i]))
            => (allRows' = allRows /\ locIdx' = locIdx + 1 /\ pc' = "location")
         /\ \E more \in {<<>>, MapRows(contacts, locations[IF locIdx \in LocIndex THEN locIdx ELSE 1].name)} :
              allRows' = allRows \o more
         /\ locIdx' \in {locIdx, locIdx + 1}
         /\ (pc = "location" /\ locIdx <= NumLocations)
            => (apiKey'[locIdx] \in EnvValues /\ pc' \in {"location", "request"}) ]_vars
  /\ [](locIdx > NumLocations => \A l \in LocIndex : apiKey[l] \in EnvValues)

\* the second location raised on its second contact after the first location
\* had contributed rows: allRows holds the first location's rows only
C7_Witness ==
  /\ pc = "location"
  /\ log = "Failed to process"
  /\ locIdx = 3
  /\ Len(fetched[2]) >= 2
  /\ ~TransformRaises(fetched[2][1])
  /\ allRows # <<>>
  /\ allRows = MapRows(fetched[1], locations[1].name)

(***************************************************************************)
(* C8: the Sheet Writer is called after all locations; the clear of rows   *)
(* 2..10000 is issued first and has completed before an update is issued;  *)
(* with no rows there is no update; with N > 0 rows there is exactly one   *)
(* update, at row 2, carrying all N rows; row 1 is never addressed.        *)
(***************************************************************************)
C8_ClearThenSingleUpdate ==
  /\ Len(sheetCalls) <= 2
  /\ sheet.header = HeaderRow
  /\ \A i \in 1..Len(sheetCalls) : sheetCalls[i].firstRow > 1
  /\ sheetCalls # <<>> =>
       /\ locIdx > NumLocations
       /\ sheetCalls[1].op = "clear"
       /\ sheetCalls[1].sheetName = "Raw Data"
       /\ sheetCalls[1].firstRow = 2
       /\ sheetCalls[1].lastRow = 10000
  /\ Len(sheetCalls) = 2 =>
       /\ sheetCalls[1].status = "ok"
       /\ sheetCalls[2].op = "update"
       /\ sheetCalls[2].sheetName = "Raw Data"
       /\ sheetCalls[2].firstRow = 2
       /\ sheetCalls[2].values = allRows
       /\ Len(allRows) > 0
  /\ (sheetCalls # <<>> /\ sheetCalls[1].status = "ok" /\ Len(allRows) > 0)
       => Len(sheetCalls) = 2
  /\ (pc = "exited" /\ exitCode = 0) => sheetCalls # <<>>
  /\ (pc = "exited" /\ exitCode = 0 /\ Len(allRows) = 0) => sheet.body = <<>>
  /\ (pc = "exited" /\ exitCode = 0 /\ Len(allRows) > 0) => sheet.body = allRows

\* two rows were written by one update after the clear
C8_Witness ==
  /\ pc = "exited"
  /\ Len(allRows) = 2
  /\ Len(sheetCalls) = 2
  /\ AllCallsOk
  /\ sheet.body = allRows

(***************************************************************************)
(* C9: a run that ends exits with code 0 exactly when the top-level        *)
(* configuration is present and the clear (and the update, if issued)      *)
(* succeeded, however many locations were skipped or failed; else with 1.  *)
(***************************************************************************)
C9_ExitCode ==
  /\ pc # "exited" => exitCode = Running
  /\ pc = "exited" =>
       /\ exitCode \in {0, 1}
       /\ exitCode = 0 <=>
            /\ sheetIdSet
            /\ credentials # "unset"
            /\ sheetCalls # <<>>
            /\ AllCallsOk

\* exit code 0 although one location was skipped and another failed
C9_Witness ==
  /\ pc = "exited"
  /\ exitCode = 0
  /\ \E l \in LocIndex : apiKey[l] = NoKey
  /\ \E l \in called : MapRaises(fetched[l])

(***************************************************************************)
(* C10: when the spreadsheet identifier or the credential payload is       *)
(* absent the run aborts with exit code 1 without any CRM request and      *)
(* without any clear or update call.                                       *)
(***************************************************************************)
C10_ConfigErrorBeforeAnyWork ==
  (~sheetIdSet \/ credentials = "unset") =>
    /\ requests = <<>>
    /\ sheetCalls = <<>>
    /\ called = {}
    /\ sheet.body = OldBody
    /\ pc \in {"start", "exited"}
    /\ pc = "exited" => exitCode = 1

\* the spreadsheet identifier is unset, the credentials are fine: exit code 1
C10_Witness ==
  /\ ~sheetIdSet
  /\ credentials = "json"
  /\ pc = "exited"
  /\ exitCode = 1

(***************************************************************************)
(* C11: one fetch accepts at most 500 pages: after the 500th accepted page *)
(* no further request is issued, even when every page is non-empty, has no *)
(* duplicates and advances the cursor.                                     *)
(***************************************************************************)
C11_SafetyLimit ==
  /\ Len(accepted) <= SafetyLimit
  /\ Len(accepted) = SafetyLimit => pc \notin {"request", "await"}

\* the 500th page was accepted with a new cursor and the fetch left the loop
C11_Witness ==
  /\ pc = "return"
  /\ log = "Safety limit reached"
  /\ Len(accepted) = SafetyLimit
  /\ startAfterId = accepted[SafetyLimit][1].id
  /\ Cardinality(seenIds) = SafetyLimit

\* the contacts of a page whose identifier the fetch met before: in the seen
\* set when the page arrived, or earlier in the page
AlreadySeen(data, seen) ==
  { i \in 1..Len(data) : data[i].id \in seen \/ \E j \in 1..(i - 1) : data[j].id = data[i].id }

(***************************************************************************)
(* C12: a page (first identifier not seen) with more than 50 contacts      *)
(* whose identifiers were already seen stops the fetch as a normal end of  *)
(* data: none of its contacts is added and no further request is issued    *)
(* for the location; a page with at most 50 of them is accepted.           *)
(***************************************************************************)
C12_StallDetection ==
  /\ [][ (ReceivesPage /\ response'.contacts # <<>>
             /\ response'.contacts[1].id \notin seenIds)
          => IF Cardinality(AlreadySeen(response'.contacts, seenIds)) > 50
             THEN /\ StopsFetch
                  /\ contacts' = contacts
                  /\ accepted' = accepted
                  /\ log' = "Too many duplicates"
             ELSE /\ accepted' = Append(accepted, response'.contacts)
                  /\ contacts' = contacts \o SelectSeq(response'.contacts, Wanted) ]_vars
  /\ [][NoRequestAfterStop]_vars
  /\ [](pc = "return" => contacts = WantedOf(accepted))

\* a page with exactly 50 already-seen contacts was accepted, and the next
\* page, with 51 of them and a new first identifier, stopped the fetch
C12_Witness ==
  /\ pc = "return"
  /\ log = "Too many duplicates"
  /\ Len(accepted) = 1
  /\ Len(accepted[1]) = 51
  /\ Len(contacts) = 51
  /\ Len(response.contacts) = 52
  /\ response.contacts[1].id \notin PageIds(accepted[1])

\* the catch block of getContacts has just met a rate limit and the loop is
\* about to send the request again
RateLimited == pc = "request" /\ response.kind = "http429"

(***************************************************************************)
(* C13 as stated: every run eventually ends, whatever the CRM and the      *)
(* spreadsheet answer; no sequence of CRM responses keeps a fetch issuing  *)
(* requests for ever.                                                      *)
(***************************************************************************)
C13_EveryRunEnds == <>(pc = "exited")

(***************************************************************************)
(* C13, amended: every run in which the CRM does not answer with a rate    *)
(* limit for ever eventually ends.                                         *)
(***************************************************************************)
C13_EndsUnlessRateLimitedForever == ([]<>RateLimited) \/ <>(pc = "exited")

\* a run ended after a fetch that only the page limit stopped
C13_Witness ==
  /\ pc = "exited"
  /\ exitCode = 0
  /\ Len(accepted) = SafetyLimit
  /\ page > SafetyLimit

Gives(f, k) ==
  f \in {KeyField(k), IdField(k), NameField(k), EmptyField(k), YesField(k)}

\* what field k of contact c resolves to: the direct property when present,
\* else the value of the first element that gives k, else the empty text
Resolution(c, k) ==
  LET list == c.customFieldList
      hits == { i \in 1..Len(list) : Gives(list[i], k) }
  IN  IF c.direct[k] # <<>> THEN c.direct[k]
      ELSE IF hits = {} THEN <<>>
      ELSE list[CHOOSE i \in hits : \A j \in hits : i <= j].value

\* the custom fields of c hold a null element
HasNull(c) == \E i \in 1..Len(c.customFieldList) : c.customFieldList[i] = NullField

\* transformContactToRow has run on contacts[1]
Transformed == pc = "location" /\ locIdx = 2 /\ Len(contacts) = 1

No == <<"N","o">>

C16_ResolutionPrecedence ==
  (Transformed /\ ~HasNull(contacts[1])) =>
    /\ Len(allRows) = 1
    /\ LET c == contacts[1]
           row == allRows[1]
       IN  /\ row[6] = Resolution(c, customFields.tourTeamMember)
           /\ row[7] = Resolution(c, customFields.saleTeamMember)
           /\ row[8] = IF Resolution(c, customFields.sameDaySale) = <<>> THEN No
                       ELSE Resolution(c, customFields.sameDaySale)
           /\ row[9] = IF Resolution(c, customFields.dayOneBooked) = <<>> THEN No
                       ELSE Resolution(c, customFields.dayOneBooked)

\* no direct property, and the element that gives the sale team member by
\* its name stands before the one that gives it by its key: the first wins
C16_Witness ==
  /\ Transformed
  /\ contacts[1].direct[customFields.saleTeamMember] = <<>>
  /\ contacts[1].customFieldList =
       <<NameField(customFields.saleTeamMember), KeyField(customFields.saleTeamMember)>>
  /\ Len(allRows) = 1
  /\ allRows[1][7] = <<"N">>

\* text a stands before text b: at the first position where they differ a
\* has the character of the lower code, or a ends there and b goes on
Before(a, b) ==
  \E n \in 1..Len(b) :
    /\ \A i \in 1..(n - 1) : i <= Len(a) /\ a[i] = b[i]
    /\ \/ Len(a) = n - 1
       \/ Len(a) >= n /\ charCodeAt(a[n]) < charCodeAt(b[n])

\* list holds the non-empty values of column col (1-based) of rows, each
\* once, in ascending order
SortedValuesOf(list, rows, col) ==
  /\ { list[i] : i \in 1..Len(list) } = { rows[i][col] : i \in 1..Len(rows) } \ {<<>>}
  /\ \A i, j \in 1..Len(list) : i < j => Before(list[i], list[j])

(***************************************************************************)
(* C17: saleMembers is the set of the non-empty values of column 7 (index  *)
(* 6) of the rows and tourMembers that of column 6 (index 5), each sorted  *)
(* ascending, without duplicates and without an empty value; the rows are  *)
(* not modified.                                                           *)
(***************************************************************************)
C17_UniqueTeamMembers ==
  /\ [][pc' = "exited" /\ exitCode' = 0 =>
         /\ SortedValuesOf(teamMembers'.saleMembers, allRows, 7)
         /\ SortedValuesOf(teamMembers'.tourMembers, allRows, 6)
         /\ allRows' = allRows]_vars
  /\ [](pc # "exited" => teamMembers = NoMembers)

\* two rows whose sale team members came in descending order and differ in
\* the case of the first letter only, with one tour team member twice
C17_Witness ==
  /\ pc = "exited"
  /\ exitCode = 0
  /\ Len(allRows) = 2
  /\ allRows[1][7] = <<"a","m","y">>
  /\ allRows[2][7] = <<"A","m","y">>
  /\ allRows[1][6] = allRows[2][6]
  /\ teamMembers = [saleMembers |-> << <<"A","m","y">>, <<"a","m","y">> >>,
                    tourMembers |-> << <<"B","o">> >>]

(***************************************************************************)
(* C18: the first request of a fetch carries no cursor; every later        *)
(* request carries the identifier of the last raw contact of the page      *)
(* accepted most recently, whether or not that contact passed the filter   *)
(* (no cursor while no page has been accepted); the cursor changes only    *)
(* when a page is accepted.                                                *)
(***************************************************************************)
C18_CursorTracking ==
  /\ [][requests' # requests =>
         LET r == requests'[Len(requests')]
             last == accepted[Len(accepted)]
         IN  /\ (\A i \in 1..Len(requests) : requests[i].loc # r.loc) => r.startAfterId = NoId
             /\ accepted = <<>> => r.startAfterId = NoId
             /\ accepted # <<>> => r.startAfterId = last[Len(last)].id]_vars
  /\ [][(startAfterId' # startAfterId /\ pc # "location") =>
         /\ ReceivesPage
         /\ accepted' = Append(accepted, response'.contacts)]_vars
  /\ [][pc = "location" => startAfterId' \in {startAfterId, NoId}]_vars

\* a request is under way whose cursor is the identifier of a contact the
\* filter dropped, the last one of the page accepted before
C18_Witness ==
  /\ pc = "await"
  /\ Len(accepted) = 1
  /\ Len(accepted[1]) = 2
  /\ Wanted(accepted[1][1])
  /\ ~Wanted(accepted[1][2])
  /\ contacts = <<accepted[1][1]>>
  /\ LastRequest.startAfterId = accepted[1][2].id
  /\ LastRequest.startAfterId # NoId

(***************************************************************************)
(* C19: in the variant with one API key, when a request is answered with   *)
(* HTTP 429 the same page is requested again with the cursor unchanged, at *)
(* every point of the fetch, the first request (cursor still null)         *)
(* included.                                                               *)
(***************************************************************************)
C19_SharedRateLimitRetries ==
  /\ [][ReceivesError("http429") =>
         /\ pc' = "request"
         /\ startAfterId' = startAfterId
         /\ page' = page
         /\ contacts' = contacts]_vars
  /\ [][(requests' # requests /\ response.kind = "http429") =>
         requests' = Append(requests, LastRequest)]_vars

(***************************************************************************)
(* C20: in the variant with one API key, when a request fails with an      *)
(* error other than 429 after some pages were collected, the fetch stops   *)
(* and what was collected is kept and returned, so that it is among the    *)
(* rows written.                                                           *)
(***************************************************************************)
C20_SharedOtherErrorKeepsPartial ==
  /\ [][(ReceivesError("error") /\ accepted # <<>>) =>
         /\ pc' = "return"
         /\ contacts' = contacts
         /\ requests' = requests]_vars
  /\ [][(pc \in {"await", "return"} /\ pc' = "location" /\ accepted # <<>>) =>
         /\ fetched'[locIdx] = WantedOf(accepted)
         /\ allRows' = RowsAfterLocation(allRows, WantedOf(accepted), locations[locIdx].name)]_vars

\* the identifiers of the contacts of pages 1..n of a sequence of pages
IdsUpTo(pages, n) == UNION { PageIds(pages[k]) : k \in 1..n }

(***************************************************************************)
(* C21 as stated: no contact identifier appears more than once in the list *)
(* a fetch builds and returns.                                             *)
(***************************************************************************)
C21_NoIdentifierTwice ==
  \A i, j \in 1..Len(contacts) : i < j => contacts[i].id # contacts[j].id

(***************************************************************************)
(* C21, amended: the list is deduplicated only as far as the loop and      *)
(* stall detection go: the first identifier of every accepted page is not  *)
(* in an earlier accepted page, and an accepted page holds at most 50      *)
(* contacts whose identifier was met before (in an earlier accepted page   *)
(* or earlier in the page); such contacts are appended again.              *)
(***************************************************************************)
C21_BestEffortDeduplication ==
  /\ \A k \in 1..Len(accepted) :
       /\ accepted[k][1].id \notin IdsUpTo(accepted, k - 1)
       /\ Cardinality(AlreadySeen(accepted[k], IdsUpTo(accepted, k - 1))) <= 50
  /\ pc \in {"request", "await", "return"} => contacts = WantedOf(accepted)

\* a fetch returned a list in which one identifier stands 51 times: the
\* second accepted page held 50 contacts of the first page's identifier
C21_Witness ==
  /\ pc = "return"
  /\ Len(accepted) = 2
  /\ Len(accepted[1]) = 1
  /\ Cardinality(AlreadySeen(accepted[2], PageIds(accepted[1]))) = 50
  /\ Cardinality({ i \in 1..Len(contacts) : contacts[i].id = accepted[1][1].id }) = 51

\* the run ended with code 1 after the for loop over the locations: a call
\* of clearAndWriteData was rejected
WriteFailed == pc = "exited" /\ exitCode = 1 /\ locIdx > NumLocations

(***************************************************************************)
(* C22: when the run ends with exit code 1 because a call to the           *)
(* destination failed, the body of the destination is as it was before     *)
(* the run (the clear, or the call before it, failed and no update was     *)
(* issued) or empty (the clear succeeded and the update failed); it never  *)
(* holds a part or a mixture of old and new rows, and the old rows are not *)
(* put back. The header row is untouched.                                  *)
(***************************************************************************)
C22_DestinationAfterFailedWrite ==
  WriteFailed =>
    /\ sheet.header = HeaderRow
    /\ sheet.body \in {OldBody, <<>>}
    /\ Len(sheetCalls) <= 2
    /\ sheetCalls = <<>> => sheet.body = OldBody
    /\ Len(sheetCalls) = 1 =>
         /\ sheetCalls[1].op = "clear"
         /\ sheetCalls[1].status = "failed"
         /\ sheet.body = OldBody
    /\ Len(sheetCalls) = 2 =>
         /\ sheetCalls[1].op = "clear"
         /\ sheetCalls[1].status = "ok"
         /\ sheetCalls[2].op = "update"
         /\ sheetCalls[2].status = "failed"
         /\ sheet.body = <<>>
         /\ sheet.body # OldBody

\* the clear emptied the body, the update of one row was rejected and the
\* run ended with code 1: neither the old row nor the new one is there
C22_Witness ==
  /\ WriteFailed
  /\ Len(sheetCalls) = 2
  /\ sheetCalls[2].status = "failed"
  /\ Len(allRows) = 1
  /\ sheet.body = <<>>
  /\ OldBody # <<>>

==============================================================================
